---- MODULE Spec2Model ----
(***************************************************************************)
(* Model of scripts/convert-countries-data.py: parse_country_data,         *)
(* save_results and the __main__ block.                                    *)
(*                                                                         *)
(* A Python str is a sequence of one-character strings.  A Python dict is  *)
(* a sequence of <<key, value>> pairs in insertion order (assigning to an  *)
(* existing key keeps its position), so that iteration order, uniqueness   *)
(* of keys and sorting are things the model can get wrong.  A file is the  *)
(* sequence of characters written to it.                                   *)
(***************************************************************************)
EXTENDS Integers, Sequences, FiniteSets, TLC

VARIABLES data, lines, idx, last, username_to_country, country_to_id,
          known_mappings, fs, out, pc, err, opened, saveCalls, run, prevFs

vars == <<data, lines, idx, last, username_to_country, country_to_id,
          known_mappings, fs, out, pc, err, opened, saveCalls, run, prevFs>>

(* ------------------------------ bounds --------------------------------- *)

\* Largest number of lines of an input text.
MaxLines == 3

(* ------------------------------ strings -------------------------------- *)

\* The characters str.strip() removes, as far as the inputs use them.
Whitespace == {" ", "\t", "\n", "\r", "\f"}

\* The characters of the model in ascending code point order: str
\* comparison in sorted() is by code point.
Ascii == <<"\t", "\n", "\f", "\r", " ", "#", ",",
           "0", "1", "2", "3", "4", "5", "6", "7", "8", "9",
           "A", "C", "D", "E", "G", "I", "K", "N", "U", "X",
           "a", "b", "c", "d", "e", "g", "i", "k", "l", "m", "n", "o",
           "r", "s", "t", "u", "y">>

Ord(c) == CHOOSE i \in 1..Len(Ascii) : Ascii[i] = c

RECURSIVE StrLess(_, _)
\* a < b on Python strings.
StrLess(a, b) ==
    IF b = <<>> THEN FALSE
    ELSE IF a = <<>> THEN TRUE
    ELSE IF Head(a) = Head(b) THEN StrLess(Tail(a), Tail(b))
    ELSE Ord(Head(a)) < Ord(Head(b))

RECURSIVE LStrip(_)
LStrip(s) ==
    IF s # <<>> /\ Head(s) \in Whitespace THEN LStrip(Tail(s)) ELSE s

RECURSIVE RStrip(_)
RStrip(s) ==
    IF s # <<>> /\ s[Len(s)] \in Whitespace
    THEN RStrip(SubSeq(s, 1, Len(s) - 1)) ELSE s

\* str.strip()
Strip(s) == RStrip(LStrip(s))

RECURSIVE SplitFrom(_, _, _)
\* The fields of s from its first character on, cur being the field read
\* so far.
SplitFrom(s, sep, cur) ==
    IF s = <<>> THEN <<cur>>
    ELSE IF Head(s) = sep THEN <<cur>> \o SplitFrom(Tail(s), sep, <<>>)
    ELSE SplitFrom(Tail(s), sep, Append(cur, Head(s)))

\* str.split(sep): always at least one field.
Split(s, sep) == SplitFrom(s, sep, <<>>)

RECURSIVE Concat(_)
\* The concatenation of a sequence of strings.
Concat(ss) == IF ss = <<>> THEN <<>> ELSE Head(ss) \o Concat(Tail(ss))

RECURSIVE Join(_, _)
Join(ss, sep) ==
    IF ss = <<>> THEN <<>>
    ELSE IF Len(ss) = 1 THEN ss[1]
    ELSE ss[1] \o <<sep>> \o Join(Tail(ss), sep)

Digit(d) == <<"0", "1", "2", "3", "4", "5", "6", "7", "8", "9">>[d + 1]

RECURSIVE Str(_)
\* The decimal digits of n >= 0, as an f-string formats an int.
Str(n) == IF n < 10 THEN <<Digit(n)>> ELSE Append(Str(n \div 10), Digit(n % 10))

(* ------------------------------- dicts --------------------------------- *)

Keys(d) == {d[i][1] : i \in 1..Len(d)}
Values(d) == {d[i][2] : i \in 1..Len(d)}
Has(d, k) == \E i \in 1..Len(d) : d[i][1] = k
Get(d, k) == d[CHOOSE i \in 1..Len(d) : d[i][1] = k][2]

\* d[k] = v
DictSet(d, k, v) ==
    IF Has(d, k)
    THEN [i \in 1..Len(d) |-> IF d[i][1] = k THEN <<k, v>> ELSE d[i]]
    ELSE Append(d, <<k, v>>)

(* ------------------------------ constants ------------------------------ *)

Greece == <<"G", "r", "e", "e", "c", "e">>
UnitedKingdom == <<"U", "n", "i", "t", "e", "d", " ", "K", "i", "n", "g", "d", "o", "m">>
UnitedArabEmirates == <<"U", "n", "i", "t", "e", "d", " ", "A", "r", "a", "b", " ",
                        "E", "m", "i", "r", "a", "t", "e", "s">>
Denmark == <<"D", "e", "n", "m", "a", "r", "k">>
Australia == <<"A", "u", "s", "t", "r", "a", "l", "i", "a">>

\* The dict literal known_mappings.
KnownCountryTable ==
    << <<Greece, 82>>, <<UnitedKingdom, 218>>, <<UnitedArabEmirates, 217>>,
       <<Denmark, 57>>, <<Australia, 12>> >>

UsernameFile == "username_countries.csv"
CountryFile == "country_ids.csv"
FileNames == {UsernameFile, CountryFile}

UsernameHeader == <<"U", "s", "e", "r", "n", "a", "m", "e", ",",
                    "C", "o", "u", "n", "t", "r", "y", "\n">>
CountryHeader == <<"C", "o", "u", "n", "t", "r", "y", "I", "D", ",",
                   "C", "o", "u", "n", "t", "r", "y", "N", "a", "m", "e", "\n">>

\* A file that does not exist.
NoFile == <<"<absent>">>

(* ------------------------------- inputs -------------------------------- *)

\* A country known_mappings does not list.
Xy == <<"X", "y">>

\* The lines input texts are made of: records with and without padding,
\* with known and unknown countries and a repeated username, an empty
\* username and country, and the lines the parser skips.
LineSet ==
    { <<"a", ",">> \o Greece,
      <<"b", ",">> \o Denmark,
      <<"a", ",">> \o Xy,
      <<" ", "b", " ", ",", "\t">> \o Greece \o <<" ">>,
      <<",">>,
      <<>>,
      <<" ">>,
      <<" ", "#", " ", "a", ",">> \o Xy,
      <<"a", "b">>,
      <<"a", ",", "b", ",">> \o Xy }

LineSeqs == UNION {[1..n -> LineSet] : n \in 0..MaxLines}

\* The input texts: raw_data.
Inputs == {Join(ls, "\n") : ls \in LineSeqs}

\* What the output files may hold before a run.
StaleContent == <<"o", "l", "d", "\n">>

(* ------------------------------- parser -------------------------------- *)

\* "if not line": comment lines are not skipped.
SkipLineBlankOnly(line) == line = <<>>

\* "if not line or line.startswith('#')", on the stripped line.
SkipLine(line) == line = <<>> \/ Head(line) = "#"

\* line.split(',', 1): the split stops at the first comma.
PartsFirstComma(line) ==
    IF \E i \in 1..Len(line) : line[i] = ","
    THEN LET i == CHOOSE j \in 1..Len(line) :
                      line[j] = "," /\ \A k \in 1..(j - 1) : line[k] # ","
         IN  <<SubSeq(line, 1, i - 1), SubSeq(line, i + 1, Len(line))>>
    ELSE <<line>>

\* parts = line.split(',')
Parts(line) == Split(line, ",")

\* "if len(parts) == 2"
IsRecord(parts) == Len(parts) = 2

\* username_to_country.setdefault(username, country): the first country of
\* a username is kept.
SetUsernameFirst(d, username, country) ==
    IF Has(d, username) THEN d ELSE Append(d, <<username, country>>)

\* username_to_country[username] = country
SetUsername(d, username, country) == DictSet(d, username, country)

\* country_to_id[country] = known_mappings.get(country, 0): a country the
\* table does not list is tracked too.
TrackCountryGet(ids, known, country) ==
    DictSet(ids, country, IF Has(known, country) THEN Get(known, country) ELSE 0)

\* "if country in known_mappings: country_to_id[country] = known_mappings[country]"
TrackCountry(ids, known, country) ==
    IF Has(known, country) THEN DictSet(ids, country, Get(known, country))
    ELSE ids

\* country_to_id = {}; username_to_country = {}; known_mappings = {...};
\* lines = data.strip().split('\n')
ParseStart ==
    /\ pc = "start"
    /\ country_to_id' = <<>>
    /\ username_to_country' = <<>>
    /\ known_mappings' = KnownCountryTable
    /\ lines' = Split(Strip(data), "\n")
    /\ idx' = 1
    /\ last' = "none"
    /\ pc' = "loop"
    /\ UNCHANGED <<data, fs, out, err, opened, saveCalls, run, prevFs>>

\* One iteration of "for line in lines".
ParseLine ==
    /\ pc = "loop"
    /\ idx <= Len(lines)
    /\ LET line == Strip(lines[idx])
           parts == Parts(line)
       IN  IF SkipLine(line) \/ ~IsRecord(parts)
           THEN /\ last' = "skipped"
                /\ UNCHANGED <<username_to_country, country_to_id>>
           ELSE LET username == Strip(parts[1])
                    country == Strip(parts[2])
                IN  /\ last' = "record"
                    /\ username_to_country' =
                           SetUsername(username_to_country, username, country)
                    /\ country_to_id' =
                           TrackCountry(country_to_id, known_mappings, country)
    /\ idx' = idx + 1
    /\ UNCHANGED <<data, lines, known_mappings, fs, out, pc, err, opened,
                   saveCalls, run, prevFs>>

(* ------------------------------- writer -------------------------------- *)

\* The number of sample pairs the summary prints.
SampleSize == 5

\* A console line: its kind, a count and up to two strings.
Msg(kind, n, a, b) == <<kind, n, a, b>>

\* (username, country) < (username, country) as Python orders tuples.
ItemLess(x, y) == StrLess(x[1], y[1]) \/ (x[1] = y[1] /\ StrLess(x[2], y[2]))

RECURSIVE InsertItem(_, _)
\* x in its place among the sorted items s, after the items not above it.
InsertItem(s, x) ==
    IF s = <<>> THEN <<x>>
    ELSE IF ItemLess(x, Head(s)) THEN <<x>> \o s
    ELSE <<Head(s)>> \o InsertItem(Tail(s), x)

RECURSIVE SortedItemsOf(_)
SortedItemsOf(d) ==
    IF d = <<>> THEN <<>>
    ELSE InsertItem(SortedItemsOf(SubSeq(d, 1, Len(d) - 1)), d[Len(d)])

\* username_to_country.items(), unsorted.
UnsortedItems(d) == d

\* sorted(username_to_country.items())
SortedItems(d) == SortedItemsOf(d)

RECURSIVE InsertById(_, _)
InsertById(s, x) ==
    IF s = <<>> THEN <<x>>
    ELSE IF x[2] < Head(s)[2] THEN <<x>> \o s
    ELSE <<Head(s)>> \o InsertById(Tail(s), x)

RECURSIVE SortedByIdOf(_)
SortedByIdOf(d) ==
    IF d = <<>> THEN <<>>
    ELSE InsertById(SortedByIdOf(SubSeq(d, 1, Len(d) - 1)), d[Len(d)])

\* country_to_id.items(), unsorted.
UnsortedById(d) == d

\* sorted(country_to_id.items(), key=lambda x: x[1])
SortedById(d) == SortedByIdOf(d)

\* f'{username},{country}\n'
UsernameRow(e) == e[1] \o <<",">> \o e[2] \o <<"\n">>

\* f'{country},{country_id}\n': the two fields swapped.
CountryRowNameFirst(e) == e[1] \o <<",">> \o Str(e[2]) \o <<"\n">>

\* f'{country_id},{country}\n'
CountryRow(e) == Str(e[2]) \o <<",">> \o e[1] \o <<"\n">>

\* The strings written to username_countries.csv, one per f.write.
UsernameWrites(d) ==
    <<UsernameHeader>> \o [i \in 1..Len(d) |-> UsernameRow(SortedItems(d)[i])]

\* The strings written to country_ids.csv, one per f.write.
CountryWrites(d) ==
    <<CountryHeader>> \o [i \in 1..Len(d) |-> CountryRow(SortedById(d)[i])]

\* open(name, 'a'): the writes follow what the file held.
OpenAppend(old) == IF old = NoFile THEN <<>> ELSE old

\* open(name, 'w'): the file is created or truncated.
OpenWrite(old) == <<>>

\* The file after a "with open(name, 'w') as f" block that made all of writes.
Written(old, writes) == OpenWrite(old) \o Concat(writes)

(* -------------------------------- main --------------------------------- *)

\* The "Found ..." lines and the sample of the first pairs in dict order.
SummaryLines(d) ==
    << Msg("Found users", Len(d), <<>>, <<>>),
       Msg("Found unique countries", Cardinality(Values(d)), <<>>, <<>>) >>
    \o (IF d # <<>>
        THEN <<Msg("Sample data:", 0, <<>>, <<>>)>>
             \o [i \in 1..(IF Len(d) < SampleSize THEN Len(d) ELSE SampleSize) |->
                    Msg("sample", 0, d[i][1], d[i][2])]
        ELSE <<>>)

\* parse_country_data returns; the summary and the sample are printed.
PrintSummary ==
    /\ pc = "loop"
    /\ idx > Len(lines)
    /\ out' = out \o SummaryLines(username_to_country)
    /\ pc' = "main_if"
    /\ UNCHANGED <<data, lines, idx, last, username_to_country, country_to_id,
                   known_mappings, fs, err, opened, saveCalls, run, prevFs>>

\* The with block inside "try: ... except OSError: pass": after a failure
\* the run goes on.
WithOpenWriteCaught(name, writes, next) ==
    \/ /\ fs' = [fs EXCEPT ![name] = Written(fs[name], writes)]
       /\ opened' = opened \cup {name}
       /\ pc' = next
       /\ err' = err
    \/ /\ pc' = next
       /\ err' = name
       /\ UNCHANGED <<fs, opened>>

\* The "with open(name, 'w') as f" block of file name making writes: it
\* completes, or open() raises and the file is as it was, or a write (or
\* the close) raises after some of the writes reached the file.
WithOpenWrite(name, writes, next) ==
    \/ /\ fs' = [fs EXCEPT ![name] = Written(fs[name], writes)]
       /\ opened' = opened \cup {name}
       /\ pc' = next
       /\ err' = err
    \/ /\ pc' = "failed"
       /\ err' = name
       /\ \/ UNCHANGED <<fs, opened>>
          \/ /\ opened' = opened \cup {name}
             /\ \E k \in 0..Len(writes) :
                    fs' = [fs EXCEPT ![name] = Written(fs[name], SubSeq(writes, 1, k))]

\* The test of "if username_to_country:" left out.
HasDataAlways(d) == TRUE

\* "if username_to_country:"
HasData(d) == d # <<>>

\* "if username_to_country: save_results(...)" up to the end of the first
\* with block.
SaveUsernames ==
    /\ pc = "main_if"
    /\ HasData(username_to_country)
    /\ saveCalls' = saveCalls + 1
    /\ WithOpenWrite(UsernameFile, UsernameWrites(username_to_country), "save_ids")
    /\ UNCHANGED <<data, lines, idx, last, username_to_country, country_to_id,
                   known_mappings, out, run, prevFs>>

\* The second with block of save_results.
SaveCountryIds ==
    /\ pc = "save_ids"
    /\ WithOpenWrite(CountryFile, CountryWrites(country_to_id), "print_saved")
    /\ UNCHANGED <<data, lines, idx, last, username_to_country, country_to_id,
                   known_mappings, out, saveCalls, run, prevFs>>

\* The two "Saved ..." lines; save_results and the run end.
PrintSaved ==
    /\ pc = "print_saved"
    /\ out' = out \o << Msg("Saved username mappings", Len(username_to_country),
                            <<>>, <<>>),
                        Msg("Saved country ID mappings", Len(country_to_id),
                            <<>>, <<>>) >>
    /\ pc' = "done"
    /\ UNCHANGED <<data, lines, idx, last, username_to_country, country_to_id,
                   known_mappings, fs, err, opened, saveCalls, run, prevFs>>

\* The else branch: "No data found! ..."; the run ends.
NoData ==
    /\ pc = "main_if"
    /\ ~HasData(username_to_country)
    /\ out' = Append(out, Msg("No data found", 0, <<>>, <<>>))
    /\ pc' = "done"
    /\ UNCHANGED <<data, lines, idx, last, username_to_country, country_to_id,
                   known_mappings, fs, err, opened, saveCalls, run, prevFs>>

\* The script is run again on the same raw_data, in the directory the first
\* run left: a new process, the files kept.
RunAgain ==
    /\ pc = "done"
    /\ run = "first"
    /\ run' = "second"
    /\ prevFs' = fs
    /\ pc' = "start"
    /\ out' = <<>>
    /\ opened' = {}
    /\ saveCalls' = 0
    /\ lines' = <<>>
    /\ idx' = 1
    /\ last' = "none"
    /\ username_to_country' = <<>>
    /\ country_to_id' = <<>>
    /\ known_mappings' = <<>>
    /\ UNCHANGED <<data, fs, err>>

\* The script starts: raw_data is any input text, and the two output files
\* are absent or hold something older.
Init ==
    /\ data \in Inputs
    /\ \E old \in {NoFile, StaleContent} : fs = [n \in FileNames |-> old]
    /\ lines = <<>>
    /\ idx = 1
    /\ last = "none"
    /\ username_to_country = <<>>
    /\ country_to_id = <<>>
    /\ known_mappings = <<>>
    /\ out = <<>>
    /\ pc = "start"
    /\ err = "none"
    /\ opened = {}
    /\ saveCalls = 0
    /\ run = "first"
    /\ prevFs = fs

Next ==
    \/ ParseStart
    \/ ParseLine
    \/ PrintSummary
    \/ SaveUsernames
    \/ SaveCountryIds
    \/ PrintSaved
    \/ NoData
    \/ RunAgain

Spec == Init /\ [][Next]_vars

(* ---------------------- vocabulary of the properties ------------------- *)

CommaCount(s) == Cardinality({i \in 1..Len(s) : s[i] = ","})

FirstComma(s) ==
    CHOOSE i \in 1..Len(s) : s[i] = "," /\ \A k \in 1..(i - 1) : s[k] # ","

\* The trimmed substrings before and after the first comma of a line.
BeforeComma(s) == Strip(SubSeq(s, 1, FirstComma(s) - 1))
AfterComma(s) == Strip(SubSeq(s, FirstComma(s) + 1, Len(s)))

\* A line that is not a record: empty after trimming, a comment, or with a
\* number of commas other than one.
NonRecordLine(l) ==
    LET t == Strip(l)
    IN  t = <<>> \/ Head(t) = "#" \/ CommaCount(t) # 1

ValidRecord(l) == ~NonRecordLine(l)

\* The positions of dict d that hold key k.
Entries(d, k) == {i \in 1..Len(d) : d[i][1] = k}

\* The parsing loop is over.
Parsed == pc \in {"main_if", "save_ids", "print_saved", "done", "failed"}

\* The line the last iteration of the loop processed.
LastLine == lines[idx - 1]

\* The rows of a file: its text cut at the newlines, each row ending in one.
FileRows(c) == LET p == Split(c, "\n") IN SubSeq(p, 1, Len(p) - 1)
DataRows(c) == Tail(FileRows(c))
EndsInNewline(c) == c # <<>> /\ c[Len(c)] = "\n"

IsNumber(s) == s # <<>> /\ \A i \in 1..Len(s) : \E d \in 0..9 : Digit(d) = s[i]

DigitValue(c) == CHOOSE d \in 0..9 : Digit(d) = c

RECURSIVE ParseInt(_)
ParseInt(s) ==
    IF s = <<>> THEN 0
    ELSE 10 * ParseInt(SubSeq(s, 1, Len(s) - 1)) + DigitValue(s[Len(s)])

Printed(kind) == \E i \in 1..Len(out) : out[i][1] = kind
PrintedCount(kind) == out[CHOOSE i \in 1..Len(out) : out[i][1] = kind][2]

\* save_results has returned.
Saved == pc = "done" /\ saveCalls = 1

IndexPermutations(n) ==
    {p \in [1..n -> 1..n] : \A i, j \in 1..n : p[i] = p[j] => i = j}

Reordered(d, p) == [i \in 1..Len(d) |-> d[p[i]]]

(* ------------------------------ properties ----------------------------- *)

\* C1: every key of CountryIdMap is a key of KnownCountryTable and a country
\* that currently appears as a value of UsernameCountryMap.
C1_CountryIdKeysSubset ==
    \A c \in Keys(country_to_id) :
        Has(KnownCountryTable, c) /\ c \in Values(username_to_country)

\* C2: after parsing, a username of the valid records has exactly one entry
\* in UsernameCountryMap, and its value is the country of the last valid
\* record with that username.
C2_LastOccurrenceWins ==
    Parsed =>
        \A i \in 1..Len(lines) :
            ValidRecord(lines[i]) =>
                LET u == BeforeComma(lines[i])
                IN  /\ Cardinality(Entries(username_to_country, u)) = 1
                    /\ (\A k \in (i + 1)..Len(lines) :
                            ValidRecord(lines[k]) => BeforeComma(lines[k]) # u)
                       => Get(username_to_country, u) = AfterComma(lines[i])

C2_Witness ==
    /\ pc = "done"
    /\ \E i, k \in 1..Len(lines) :
           /\ i < k
           /\ ValidRecord(lines[i]) /\ ValidRecord(lines[k])
           /\ BeforeComma(lines[i]) = BeforeComma(lines[k])
           /\ AfterComma(lines[i]) # AfterComma(lines[k])
           /\ \A m \in (k + 1)..Len(lines) : NonRecordLine(lines[m])
           /\ Get(username_to_country, BeforeComma(lines[k])) = AfterComma(lines[k])

\* C3: a line that survives parsing has exactly one comma after trimming,
\* and processing it sets exactly one UsernameCountryMap entry: the trimmed
\* text before the comma maps to the trimmed text after it, and every
\* other entry is as it was.
C3_SurvivingLine ==
    [][ (pc = "loop" /\ idx' = idx + 1 /\ last' = "record") =>
          LET t == Strip(lines[idx])
              u == BeforeComma(t)
          IN  /\ CommaCount(t) = 1
              /\ Cardinality(Entries(username_to_country', u)) = 1
              /\ Get(username_to_country', u) = AfterComma(t)
              /\ Keys(username_to_country') = Keys(username_to_country) \cup {u}
              /\ \A k \in Keys(username_to_country) \ {u} :
                     /\ Cardinality(Entries(username_to_country', k)) = 1
                     /\ Get(username_to_country', k) = Get(username_to_country, k)
      ]_vars

C3_Witness ==
    /\ pc = "loop" /\ idx > 1 /\ last = "record"
    /\ LastLine # Strip(LastLine)
    /\ BeforeComma(LastLine) # SubSeq(LastLine, 1, FirstComma(LastLine) - 1)
    /\ Len(username_to_country) = 2
    /\ Get(username_to_country, BeforeComma(LastLine)) = AfterComma(LastLine)

\* C4: processing a line that is not a record (empty after trimming, a
\* comment, or with no comma or more than one) changes neither map, raises
\* nothing, and the loop goes on to the next line.
C4_NonRecordSkipped ==
    [][ (pc = "loop" /\ idx <= Len(lines) /\ NonRecordLine(lines[idx])) =>
          /\ username_to_country' = username_to_country
          /\ country_to_id' = country_to_id
          /\ pc' = "loop"
          /\ idx' = idx + 1
          /\ err' = "none"
      ]_vars

C4_Witness ==
    /\ pc = "loop" /\ idx > 2 /\ idx <= Len(lines) /\ last = "skipped"
    /\ CommaCount(LastLine) >= 2
    /\ username_to_country # <<>>
    /\ \E i \in 1..Len(lines) : Strip(lines[i]) # <<>> /\ Head(Strip(lines[i])) = "#"

\* C5: with an empty UsernameCountryMap the run opens and writes neither
\* file, prints the "no data found" message and completes; with a non-empty
\* one save_results is called exactly once and the message is not printed.
C5_EmptyInputWritesNothing ==
    /\ saveCalls <= 1
    /\ (Parsed /\ username_to_country = <<>>) =>
           /\ opened = {} /\ fs = prevFs /\ saveCalls = 0
           /\ pc \in {"main_if", "done"}
           /\ err = "none"
           /\ pc = "done" => Printed("No data found")
    /\ (Parsed /\ pc # "main_if" /\ username_to_country # <<>>) =>
           /\ saveCalls = 1
           /\ ~Printed("No data found")

C5_Witness ==
    /\ pc = "done" /\ username_to_country = <<>>
    /\ Len(lines) = 3
    /\ \E i \in 1..Len(lines) : CommaCount(lines[i]) >= 1
    /\ fs[UsernameFile] = StaleContent
    /\ Printed("No data found")

\* C6: in the files save_results wrote, the header is the first row, the
\* data rows of username_countries.csv are in non-decreasing order of
\* username and those of country_ids.csv in non-decreasing order of ID.
C6_RowsSorted ==
    Saved =>
        LET urows == FileRows(fs[UsernameFile])
            crows == FileRows(fs[CountryFile])
        IN  /\ urows[1] \o <<"\n">> = UsernameHeader
            /\ crows[1] \o <<"\n">> = CountryHeader
            /\ \A i, j \in 2..Len(urows) :
                   i < j => ~StrLess(Split(urows[j], ",")[1], Split(urows[i], ",")[1])
            /\ \A i, j \in 2..Len(crows) :
                   i < j => ParseInt(Split(crows[i], ",")[1])
                              <= ParseInt(Split(crows[j], ",")[1])

C6_Witness ==
    /\ Saved
    /\ Len(username_to_country) >= 2
    /\ StrLess(username_to_country[2][1], username_to_country[1][1])
    /\ Len(country_to_id) = 2
    /\ country_to_id[2][2] < country_to_id[1][2]

\* C7: a second run on the same input, started with the files of the first
\* run in place, leaves files identical to those of the first run; the
\* files do not depend on the order of the entries in the maps.
C7_SecondRunSameFiles ==
    /\ (run = "second" /\ pc = "done") => fs = prevFs
    /\ Saved =>
           /\ \A p \in IndexPermutations(Len(username_to_country)) :
                  Written(NoFile, UsernameWrites(Reordered(username_to_country, p)))
                      = fs[UsernameFile]
           /\ \A p \in IndexPermutations(Len(country_to_id)) :
                  Written(NoFile, CountryWrites(Reordered(country_to_id, p)))
                      = fs[CountryFile]

C7_Witness ==
    /\ run = "second" /\ Saved
    /\ opened = FileNames
    /\ Len(username_to_country) >= 2
    /\ Len(country_to_id) >= 2
    /\ fs[UsernameFile] # StaleContent

\* C8: an error opening or writing an output file is not caught: nothing
\* runs after it (no second file, no "Saved" line), and a run that ends
\* normally with data has written both files in full and printed both
\* "Saved" lines.
C8_WriteErrorAborts ==
    /\ [](pc = "failed" =>
            /\ err \in FileNames
            /\ ~Printed("Saved username mappings")
            /\ ~Printed("Saved country ID mappings")
            /\ err = UsernameFile =>
                   CountryFile \notin opened /\ fs[CountryFile] = prevFs[CountryFile])
    /\ []((pc = "done" /\ username_to_country # <<>>) =>
            /\ err = "none"
            /\ opened = FileNames
            /\ fs[UsernameFile] = Concat(UsernameWrites(username_to_country))
            /\ fs[CountryFile] = Concat(CountryWrites(country_to_id))
            /\ Printed("Saved username mappings")
            /\ Printed("Saved country ID mappings"))
    /\ [][pc = "failed" => UNCHANGED vars]_vars
    /\ [][err # "none" => UNCHANGED vars]_vars

C8_Witness ==
    /\ pc = "failed" /\ err = UsernameFile
    /\ UsernameFile \in opened
    /\ fs[UsernameFile] = UsernameHeader
    /\ fs[CountryFile] = StaleContent
    /\ Len(username_to_country) >= 2

\* C9: when save_results has returned, username_countries.csv holds one
\* data row "username,country" for each entry of UsernameCountryMap and
\* country_ids.csv one data row "id,name" for each entry of CountryIdMap,
\* none missing and none twice, and the "Saved" counts are the row counts.
C9_OneRowPerEntry ==
    Saved =>
        LET urows == DataRows(fs[UsernameFile])
            crows == DataRows(fs[CountryFile])
        IN  /\ EndsInNewline(fs[UsernameFile]) /\ EndsInNewline(fs[CountryFile])
            /\ Len(urows) = Len(username_to_country)
            /\ Len(crows) = Len(country_to_id)
            /\ \A e \in 1..Len(username_to_country) :
                   Cardinality({r \in 1..Len(urows) :
                       urows[r] = username_to_country[e][1] \o <<",">>
                                  \o username_to_country[e][2]}) = 1
            /\ \A e \in 1..Len(country_to_id) :
                   Cardinality({r \in 1..Len(crows) :
                       /\ CommaCount(crows[r]) = 1
                       /\ IsNumber(SubSeq(crows[r], 1, FirstComma(crows[r]) - 1))
                       /\ ParseInt(SubSeq(crows[r], 1, FirstComma(crows[r]) - 1))
                              = country_to_id[e][2]
                       /\ SubSeq(crows[r], FirstComma(crows[r]) + 1, Len(crows[r]))
                              = country_to_id[e][1]}) = 1
            /\ PrintedCount("Saved username mappings") = Len(urows)
            /\ PrintedCount("Saved country ID mappings") = Len(crows)

C9_Witness ==
    /\ Saved
    /\ Len(username_to_country) = 3
    /\ Len(country_to_id) = 2
    /\ Len(DataRows(fs[CountryFile])) = 2

\* C10: a valid record whose country is in KnownCountryTable leaves
\* CountryIdMap[country] = KnownCountryTable[country], and an entry of
\* CountryIdMap never changes afterwards; a valid record whose country is
\* not in the table still sets the username entry and leaves CountryIdMap
\* unchanged.  KnownCountryTable is never modified.
C10_KnownCountryTracked ==
    /\ [](pc # "start" => known_mappings = KnownCountryTable)
    /\ [][ (pc = "loop" /\ idx <= Len(lines) /\ ValidRecord(lines[idx])) =>
             LET u == BeforeComma(lines[idx])
                 c == AfterComma(lines[idx])
             IN  /\ Has(username_to_country', u)
                 /\ Get(username_to_country', u) = c
                 /\ IF Has(KnownCountryTable, c)
                    THEN /\ Cardinality(Entries(country_to_id', c)) = 1
                         /\ Get(country_to_id', c) = Get(KnownCountryTable, c)
                    ELSE country_to_id' = country_to_id
         ]_vars
    /\ [][ (pc # "start" /\ run' = run) =>
             /\ known_mappings' = known_mappings
             /\ \A c \in Keys(country_to_id) :
                    /\ Has(country_to_id', c)
                    /\ Get(country_to_id', c) = Get(country_to_id, c)
         ]_vars

C10_Witness ==
    /\ pc = "loop" /\ idx = 4 /\ last = "record"
    /\ ~Has(KnownCountryTable, AfterComma(LastLine))
    /\ Get(username_to_country, BeforeComma(LastLine)) = AfterComma(LastLine)
    /\ Len(country_to_id) = 2
    /\ Get(country_to_id, Greece) = 82

====
